---- MODULE Spec2Model ----
(***************************************************************************)
(* A model of the locals-only Telegram bot: the hashtag router, the        *)
(* extraction adapter, the ingestion orchestrator and the document store   *)
(* they write to.                                                          *)
(*                                                                         *)
(* Texts are sequences of one-character strings, so that the regular       *)
(* expression scan, str.lower, str.replace and str.strip are computed as   *)
(* Python computes them.  Python and JSON values are records               *)
(* [t, s, n]: a type tag, a string payload and an integer payload.         *)
(***************************************************************************)
EXTENDS Integers, Sequences, FiniteSets, TLC

\* ------------------------------------------------------------------ bounds

\* Longest free text of an inbound message, in characters.
MaxTextLen == 3
\* Most entities the store holds.
MaxEntities == 1
\* Most keys a service response carries in its extracted_info.
MaxRespKeys == 2
\* Most uuid4() values drawn.
MaxUuid == 3
\* Most images a media group holds.
MaxImages == 2
\* Most characters of a text given to the hashtag router on its own.
MaxScanLen == 5
\* Most requests handled at the same time.
MaxHandlers == 3
\* Most recipients of a notification.
MaxRecipients == 65

\* ------------------------------------------------------- Python/JSON values

V(t, s, n) == [t |-> t, s |-> s, n |-> n]
None == V("none", "", 0)
Str(s) == V("str", s, 0)
IntV(n) == V("int", "", n)
FloatV(n) == V("float", "", n)
BoolV(b) == V("bool", "", IF b THEN 1 ELSE 0)
Datetime(s) == V("datetime", s, 0)
ListV == V("list", "", 0)
DictV == V("dict", "", 0)
\* str(uuid.uuid4()): a string identified by the number of the draw.
Uuid(n) == V("str", "uuid", n)

\* A key a dict does not hold.
Absent == "<absent>"

\* ------------------------------------------------------------------ strings

Alphabet == {"#", "i", "I", " "}

Lower(c) == IF c = "I" THEN "i" ELSE c

\* str.lower
lower(text) == [k \in DOMAIN text |-> Lower(text[k])]

\* \w of the regular expression: a letter, a digit or an underscore.
IsWordChar(c) ==
    c \in {"i", "I", "e", "s", "t", "a", "r", "h", "l", "p", "v", "n", "m", "c", "w"}

IsSpace(c) == c = " "

\* The end of the run of word characters that starts at position p.
RECURSIVE WordEnd(_, _)
WordEnd(s, p) ==
    IF p + 1 <= Len(s) /\ IsWordChar(s[p + 1]) THEN WordEnd(s, p + 1) ELSE p

\* re.findall(r'(#\w+)', s): the leftmost, longest, non-overlapping matches,
\* scanning from position p.
RECURSIVE findall_from(_, _)
findall_from(s, p) ==
    IF p > Len(s) THEN <<>>
    ELSE IF s[p] = "#" /\ p + 1 <= Len(s) /\ IsWordChar(s[p + 1])
         THEN <<SubSeq(s, p, WordEnd(s, p + 1))>> \o findall_from(s, WordEnd(s, p + 1) + 1)
         ELSE findall_from(s, p + 1)

findall_hashtags(s) == findall_from(s, 1)

\* Whether old occurs in s at position p.
OccursAt(s, old, p) ==
    /\ p + Len(old) - 1 <= Len(s)
    /\ SubSeq(s, p, p + Len(old) - 1) = old

\* Whether sub occurs in s.
Contains(s, sub) == \E p \in 1..Len(s) : OccursAt(s, sub, p)

\* s.replace(old, ''), old not empty: the non-overlapping occurrences, leftmost
\* first, are removed.
RECURSIVE replace_from(_, _, _)
replace_from(s, old, p) ==
    IF p > Len(s) THEN <<>>
    ELSE IF OccursAt(s, old, p) THEN replace_from(s, old, p + Len(old))
    ELSE <<s[p]>> \o replace_from(s, old, p + 1)

str_replace(s, old) == replace_from(s, old, 1)

\* str.strip
RECURSIVE lstrip(_)
lstrip(s) == IF s # <<>> /\ IsSpace(Head(s)) THEN lstrip(Tail(s)) ELSE s

RECURSIVE rstrip(_)
rstrip(s) ==
    IF s # <<>> /\ IsSpace(s[Len(s)]) THEN rstrip(SubSeq(s, 1, Len(s) - 1)) ELSE s

strip(s) == rstrip(lstrip(s))

\* text.startswith(prefix)
startswith(s, prefix) == OccursAt(s, prefix, 1)

\* ---------------------------------------------------------- schema registry

Kinds == {"event", "news", "item", "service"}

\* One entry of get_structure(): the key and its tuple (type, default supplier,
\* AI-extracted flag, description, example).  The default supplier is
\* default_value below.
Field(key, type, ai, description, example) ==
    [key |-> key, type |-> type, ai |-> ai, description |-> description,
     example |-> example]

BaseStructure ==
    << Field("id", "str", FALSE, None, None),
       Field("title", "str", TRUE, None, None),
       Field("mediaGroupId", "str", FALSE, None, None),
       Field("author", "str", FALSE, None, None),
       Field("userId", "int", FALSE, None, None),
       Field("category", "str", TRUE, None, None),
       Field("description", "str", TRUE, None, None),
       Field("publishedAt", "datetime", FALSE, None, None),
       Field("communityId", "str", FALSE, None, None),
       Field("messageId", "str", FALSE, None, None) >>

ItemFields ==
    << Field("price", "float", TRUE,
             Str("The price of the item. Extract a numeric value. If it's mentioned as free, use 0."),
             Str("Examples: 10.99, 500, 1500.50")),
       Field("currency", "str", TRUE,
             Str("The currency code for the price. Use standard 3-letter currency codes."),
             Str("Examples: USD, EUR, GBP, RUB")),
       Field("title", "str", TRUE,
             Str("A short, descriptive title for the item."),
             Str("Examples: 'Vintage Guitar', 'iPhone 12 Pro', 'Handmade Pottery Set'")),
       Field("category", "str", TRUE,
             Str("The category the item belongs to. Use general terms."),
             Str("Examples: 'Electronics', 'Furniture', 'Clothing', 'Books'")),
       Field("description", "str", TRUE,
             Str("A detailed description of the item, including condition, features, etc. Use all provided information to describe the item."),
             Str("")) >>

ServiceFields ==
    << Field("price", "float", TRUE,
             Str("The price of the service. Extract a numeric value. Use per hour rate if applicable. If it's mentioned as free, use 0."),
             Str("Examples: 25.50, 100, 75.99")),
       Field("currency", "str", TRUE,
             Str("The currency code for the price. Use standard 3-letter currency codes."),
             Str("Examples: USD, EUR, GBP, RUB")),
       Field("title", "str", TRUE,
             Str("A short, descriptive title for the service."),
             Str("Examples: 'Professional Photography', 'House Cleaning', 'Math Tutoring'")),
       Field("category", "str", TRUE,
             Str("The category the service belongs to. Use general terms."),
             Str("Examples: 'Home Services', 'Education', 'Professional Services', 'Health & Wellness'")),
       Field("description", "str", TRUE,
             Str("A detailed description of the service, including what's offered, experience level, etc. Use all provided information to describe the service."),
             Str("")) >>

EventFields ==
    << Field("title", "str", TRUE,
             Str("A short, descriptive title for the event."),
             Str("Examples: 'Community Cleanup Day', 'Local Art Exhibition', 'Neighborhood BBQ'")),
       Field("date", "datetime", TRUE,
             Str("The date and time when the event will take place (always in the future from the current date). Use ISO format."),
             Str("Format: 'YYYY-MM-DDThh:mm:ss'")),
       Field("category", "str", TRUE,
             Str("The category the event belongs to."),
             Str("Examples: 'Community Service', 'Arts & Culture', 'Sports & Recreation', 'Education'")),
       Field("description", "str", TRUE,
             Str("A detailed description of the event, including what to expect, who should attend, etc. Use all provided information to describe the event."),
             Str("")) >>

NewsFields ==
    << Field("title", "str", TRUE,
             Str("A short, descriptive headline for the news item."),
             Str("Examples: 'New Community Center Opening Next Month', 'Local School Wins State Championship'")),
       Field("category", "str", TRUE,
             Str("The category the news item belongs to."),
             Str("Examples: 'Local Government', 'Education', 'Business', 'Community'")),
       Field("description", "str", TRUE,
             Str("The main content of the news item, including key details and quotes if available. Use all provided information to describe the news item."),
             Str("")) >>

KeysOf(fields) == {fields[k].key : k \in DOMAIN fields}

\* dict.update: a key the dict holds keeps its place and takes the new value, a
\* new key is appended.
RECURSIVE dict_update(_, _)
dict_update(structure, fields) ==
    IF fields = <<>> THEN structure
    ELSE LET f == Head(fields)
             updated ==
                 IF f.key \in KeysOf(structure)
                 THEN [k \in DOMAIN structure |->
                          IF structure[k].key = f.key THEN f ELSE structure[k]]
                 ELSE Append(structure, f)
         IN dict_update(updated, Tail(fields))

get_structure(kind) ==
    dict_update(BaseStructure,
                CASE kind = "item" -> ItemFields
                  [] kind = "service" -> ServiceFields
                  [] kind = "event" -> EventFields
                  [] kind = "news" -> NewsFields)

\* The entry of a key of a structure.
FieldOf(structure, key) ==
    structure[CHOOSE k \in DOMAIN structure : structure[k].key = key]

\* The default supplier of a key, called with the next uuid4() draw.
default_value(key, uuid) ==
    CASE key \in {"id", "mediaGroupId"} -> Uuid(uuid)
      [] key = "title" -> Str("Untitled")
      [] key = "category" -> Str("Uncategorized")
      [] key = "description" -> Str("No description provided")
      [] key \in {"publishedAt", "date"} -> Datetime("now")
      [] OTHER -> None

\* get_entity_class
get_entity_class(entity_type) == IF entity_type \in Kinds THEN entity_type ELSE Absent

\* ------------------------------------------------------- extraction adapter

get_confidence_threshold == 30

\* Python's "not v" for a description or an example: None and '' are falsy.
Falsy(v) == v = None \/ v = Str("")

\* ai_structure: the entries flagged AI-extracted, in the structure's order.
RECURSIVE ai_structure(_)
ai_structure(structure) ==
    IF structure = <<>> THEN <<>>
    ELSE IF Head(structure).ai
         THEN <<Head(structure)>> \o ai_structure(Tail(structure))
         ELSE ai_structure(Tail(structure))

\* The check that every AI-extracted field has a description and an example:
\* whether it raises ValueError.
schema_check_raises(structure) ==
    \E k \in DOMAIN ai_structure(structure) :
        \/ Falsy(ai_structure(structure)[k].description)
        \/ Falsy(ai_structure(structure)[k].example)

\* The decimal numerals the model's strings and numbers use.
NumeralOf(n) == CASE n = 0 -> "0" [] n = 1 -> "1" [] n = 150 -> "150" [] OTHER -> "n"
IsNumeral(s) == s \in {"0", "1", "150"}
ValueOf(s) == CASE s = "0" -> 0 [] s = "1" -> 1 [] s = "150" -> 150 [] OTHER -> 0
IsIsoDate(s) == s = "2023-07-15T14:00:00"

\* The result of a conversion: the exception it raised ("" for none) and the
\* value.
Converted(v) == [exc |-> "", v |-> v]
Failed(exc) == [exc |-> exc, v |-> None]

\* str(v)
py_str(v) ==
    CASE v.t = "str" -> v
      [] v.t = "int" -> Str(NumeralOf(v.n))
      [] v.t = "float" -> Str(NumeralOf(v.n) \o ".0")
      [] v.t = "bool" -> Str(IF v.n = 1 THEN "True" ELSE "False")
      [] v.t = "list" -> Str("[150]")
      [] v.t = "dict" -> Str("{'amount': 150}")
      [] v.t = "datetime" -> Str(v.s)
      [] OTHER -> Str("None")

\* float(v)
py_float(v) ==
    CASE v.t \in {"int", "float", "bool"} -> Converted(FloatV(v.n))
      [] v.t = "str" -> IF IsNumeral(v.s) THEN Converted(FloatV(ValueOf(v.s)))
                        ELSE Failed("ValueError")
      [] OTHER -> Failed("TypeError")

\* int(v)
py_int(v) ==
    CASE v.t \in {"int", "float", "bool"} -> Converted(IntV(v.n))
      [] v.t = "str" -> IF IsNumeral(v.s) THEN Converted(IntV(ValueOf(v.s)))
                        ELSE Failed("ValueError")
      [] OTHER -> Failed("TypeError")

\* bool(v): the truth value.
py_bool(v) ==
    BoolV(~ (v = None \/ v = Str("") \/ (v.t \in {"int", "float", "bool"} /\ v.n = 0)))

\* datetime.fromisoformat(v)
fromisoformat(v) ==
    IF v.t # "str" THEN Failed("TypeError")
    ELSE IF IsIsoDate(v.s) THEN Converted(Datetime(v.s))
    ELSE Failed("ValueError")

\* json.loads(s.replace("'", '"')) of a string given for a list field.
loads_list_string(v) ==
    CASE v.s = "[150]" -> Converted(ListV)
      [] IsNumeral(v.s) -> Converted(IntV(ValueOf(v.s)))
      [] OTHER -> Failed("ValueError")

\* The conversion of a present value to the declared type of its field.
Coerce(value_type, v) ==
    CASE value_type = "datetime" -> fromisoformat(v)
      [] value_type = "int" -> py_int(v)
      [] value_type = "float" -> py_float(v)
      [] value_type = "bool" -> Converted(py_bool(v))
      [] value_type = "str" -> Converted(py_str(v))
      [] value_type = "list" ->
            IF v.t = "str" THEN loads_list_string(v)
            ELSE IF v.t # "list" THEN Converted(ListV) ELSE Converted(v)
      [] value_type = "dict" -> IF v.t # "dict" THEN Converted(DictV) ELSE Converted(v)
      [] OTHER -> Converted(v)

\* What a call of the adapter ends with: ret is "raise", "none" or "mapping",
\* exc the exception raised, log the message logged on the way out, info the
\* mapping returned.
Raises(exc) == [ret |-> "raise", exc |-> exc, log |-> "", info |-> <<>>]
ReturnsNone(log) == [ret |-> "none", exc |-> "", log |-> log, info |-> <<>>]
ReturnsMapping(info) == [ret |-> "mapping", exc |-> "", log |-> "", info |-> info]

\* A mapping without some keys.
Without(info, keys) == [k \in DOMAIN info \ keys |-> info[k]]

\* "Remove fields with null values".
remove_nulls(info) == Without(info, {k \in DOMAIN info : info[k] = None})

\* The gate with the comparison turned into "at most".
BelowThreshold_le(confidence_score) == confidence_score.n <= get_confidence_threshold

\* confidence_score < confidence_threshold, on a number.
BelowThreshold(confidence_score) == confidence_score.n < get_confidence_threshold

\* The AI-extracted keys the mapping holds whose conversion raises exc.
FailingKeys(structure, info, exc) ==
    {k \in DOMAIN info :
        /\ k \in KeysOf(ai_structure(structure))
        /\ Coerce(FieldOf(structure, k).type, info[k]).exc = exc}

\* The conversion loop: a ValueError (json.JSONDecodeError is one) drops the
\* field, any other exception leaves the loop for the outer handler.
coerce_fields(structure, info) ==
    IF FailingKeys(structure, info, "TypeError") # {}
    THEN ReturnsNone("Error parsing OpenAI response")
    ELSE ReturnsMapping(
             [k \in DOMAIN info \ FailingKeys(structure, info, "ValueError") |->
                 IF k \in KeysOf(ai_structure(structure))
                 THEN Coerce(FieldOf(structure, k).type, info[k]).v
                 ELSE info[k]])

\* A response of the service: json says whether its content parses to an
\* object, shape what the object holds under 'extracted_info' ("dict", "absent"
\* for a missing key, "other" for a value that is no dict), info that dict, and
\* conf what it holds under 'confidence_score' (NoValue for a missing key).
NoValue == V("absent", "", 0)
Response(json, shape, info, conf) ==
    [api |-> "ok", json |-> json, shape |-> shape, info |-> info, conf |-> conf]
\* The service was not called.
NotAsked == [api |-> "not called", json |-> FALSE, shape |-> "absent", info |-> <<>>, conf |-> NoValue]
\* The call of the service raised.
ApiError == [api |-> "error", json |-> FALSE, shape |-> "absent", info |-> <<>>, conf |-> NoValue]

\* The handling of the service's response (the try block).
process_response(structure, response) ==
    IF ~response.json THEN ReturnsNone("JSON parsing error")
    ELSE IF response.shape = "absent" \/ response.conf = NoValue
    THEN ReturnsNone("Error parsing OpenAI response")
    ELSE IF response.shape # "dict"
    THEN ReturnsNone("Error parsing OpenAI response")
    ELSE IF response.conf.t \notin {"int", "float", "bool"}
    THEN ReturnsNone("Error parsing OpenAI response")
    ELSE IF BelowThreshold(response.conf)
    THEN ReturnsNone("Confidence score is below threshold")
    ELSE coerce_fields(structure, remove_nulls(response.info))

\* extract_entity_info_with_ai for an entity class with this structure,
\* answered by the service with this response.
extract_entity_info_with_ai(structure, response) ==
    IF schema_check_raises(structure) THEN Raises("ValueError")
    ELSE IF response.api = "error" THEN Raises("OpenAIError")
    ELSE process_response(structure, response)

\* -------------------------------------------------------------------- state

VARIABLES
    communities,  \* the 'communities' collection: a set of documents
    users,        \* the 'users' collection: user id -> document
    entities,     \* the items, services, events and news collections
    mediaGroups,  \* the 'media_groups' collection: id -> list of images
    uuid,         \* the number of uuid4() values drawn so far
    event,        \* the inbound event handled last
    ai,           \* the call of the extraction adapter the last event made
    result,       \* how the handling of the last event ended
    handlers      \* the requests in flight: where each one is and what it has read

store == <<communities, users, entities, mediaGroups, uuid>>
vars == <<communities, users, entities, mediaGroups, uuid, event, ai, result, handlers>>

NoEvent == [type |-> "none"]
NoCall == [called |-> FALSE]
NoResult == [status |-> "none"]

Init ==
    /\ communities = {}
    /\ users = <<>>
    /\ entities = {}
    /\ mediaGroups = <<>>
    /\ uuid = 0
    /\ event = NoEvent
    /\ ai = NoCall
    /\ result = NoResult
    /\ handlers = <<>>

\* ------------------------------------------------ the adapter on its inputs

\* The values a service response holds for a key.
JsonValues ==
    {None, Str("Bike"), Str("150"), Str("2023-07-15T14:00:00"), IntV(150),
     BoolV(TRUE), ListV, DictV}

\* The values a service response holds for its confidence score.
ConfidenceValues == {IntV(0), IntV(29), IntV(30), IntV(80), Str("80"), NoValue}

\* The keys a response for a kind may hold: the requested ones, and one that
\* was not requested.
ResponseKeys(kind) == KeysOf(ai_structure(get_structure(kind))) \cup {"communityId"}

\* The extracted_info dicts of at most n keys.
InfoMaps(kind, n) ==
    UNION {[K -> JsonValues] : K \in {K \in SUBSET ResponseKeys(kind) : Cardinality(K) <= n}}

Responses(kind, n) ==
    {ApiError, Response(FALSE, "absent", <<>>, NoValue),
     Response(TRUE, "absent", <<>>, IntV(80)), Response(TRUE, "other", <<>>, IntV(80))}
    \cup {Response(TRUE, "dict", info, conf) :
            info \in InfoMaps(kind, n), conf \in ConfidenceValues}

\* extract_entity_info_with_ai called for a registered entity class.  The service
\* is asked only once the schema check has passed.
Extract(kind) ==
    /\ ai = NoCall
    /\ \E response \in IF schema_check_raises(get_structure(kind))
                       THEN {NotAsked}
                       ELSE Responses(kind, MaxRespKeys) :
          ai' = [called |-> TRUE, part |-> "extract_entity_info_with_ai", kind |-> kind,
                 asked |-> ~schema_check_raises(get_structure(kind)),
                 response |-> response,
                 outcome |-> extract_entity_info_with_ai(get_structure(kind), response)]
    /\ UNCHANGED <<store, event, result, handlers>>

\* The adapter from the service's answer on, for a registered entity class:
\* the call of the service and the handling of its response.
ProcessResponse(kind) ==
    /\ ai = NoCall
    /\ \E response \in Responses(kind, MaxRespKeys) :
          /\ response.api = "ok"
          /\ ai' = [called |-> TRUE, part |-> "process_response", kind |-> kind,
                    asked |-> TRUE,
                    response |-> response,
                    outcome |-> process_response(get_structure(kind), response)]
    /\ UNCHANGED <<store, event, result, handlers>>

\* The adapter is applied once to the inputs drawn.
NextExtract ==
    \/ \E kind \in Kinds : Extract(kind)
    \/ \E kind \in Kinds : ProcessResponse(kind)

SpecExtract == Init /\ [][NextExtract]_vars

\* --------------------------------------------- properties of the adapter

\* The service answered the call with an object holding a dict under
\* 'extracted_info' and a number under 'confidence_score'.
Answered ==
    /\ ai.called
    /\ ai.asked
    /\ ai.response.api = "ok"
    /\ ai.response.json
    /\ ai.response.shape = "dict"
    /\ ai.response.conf.t \in {"int", "float"}

C2_SchemaCheckNeverRaises ==
    (ai.called /\ ai.part = "extract_entity_info_with_ai") =>
        /\ \A k \in DOMAIN ai_structure(get_structure(ai.kind)) :
              /\ ~Falsy(ai_structure(get_structure(ai.kind))[k].description)
              /\ ~Falsy(ai_structure(get_structure(ai.kind))[k].example)
        /\ ai.outcome # Raises("ValueError")

\* The AI-extracted keys of the answered call whose value, not null, cannot be
\* converted to the declared type.
Uncoercible ==
    {k \in DOMAIN remove_nulls(ai.response.info) :
        /\ k \in KeysOf(ai_structure(get_structure(ai.kind)))
        /\ Coerce(FieldOf(get_structure(ai.kind), k).type, ai.response.info[k]).exc # ""}

\* C8: when the score passes the gate and a returned field cannot be converted
\* to its declared type, the adapter returns a mapping that lacks exactly that
\* field and holds every other non-null field of the response; the failure
\* never turns the call into "no extraction".
C8_FailedFieldOnlyDropped ==
    (Answered /\ ai.response.conf.n >= 30 /\ Uncoercible # {}) =>
        /\ ai.outcome.ret = "mapping"
        /\ DOMAIN ai.outcome.info = DOMAIN remove_nulls(ai.response.info) \ Uncoercible

\* ---------------------------------------------------------- inbound messages

\* message['from'] of the senders: a member with a username, a member without
\* one, the anonymous-admin proxy and another bot.
Alice == [id |-> 1, is_bot |-> FALSE, username |-> "alice", first_name |-> "Alice",
          last_name |-> "Ames"]
Bob == [id |-> 2, is_bot |-> FALSE, username |-> Absent, first_name |-> "Bob",
        last_name |-> Absent]
AnonymousAdmin == [id |-> 3, is_bot |-> TRUE, username |-> "GroupAnonymousBot",
                   first_name |-> "Group", last_name |-> Absent]
OtherBot == [id |-> 4, is_bot |-> TRUE, username |-> "other_bot", first_name |-> "Other",
             last_name |-> Absent]
Senders == {Alice, Bob, AnonymousAdmin, OtherBot}

\* A message.  media is "none", "photo", "image_document" (a document of an
\* image/ mime type) or "other_document"; a message without media holds its
\* text under 'text', one with media under 'caption', and an empty text stands
\* for a missing key.  media_group_id is None when the key is missing.
Message(chat_type, sender, media, text, media_group_id) ==
    [chat |-> [id |-> 100, type |-> chat_type, title |-> "Locals"],
     message_id |-> 7,
     from |-> sender,
     media |-> media,
     text |-> IF media = "none" THEN text ELSE <<>>,
     caption |-> IF media = "none" THEN <<>> ELSE text,
     media_group_id |-> media_group_id]

HasKey(message, key) ==
    CASE key = "text" -> message.media = "none" /\ message.text # <<>>
      [] key = "caption" -> message.media # "none" /\ message.caption # <<>>
      [] key = "photo" -> message.media = "photo"
      [] key = "document" -> message.media \in {"image_document", "other_document"}
      [] key = "media_group_id" -> message.media_group_id # None
      [] OTHER -> FALSE

\* The text a message is scanned for hashtags in.
ScannedText(message) == IF message.media = "none" THEN message.text ELSE message.caption

\* The texts of at most n characters.
Texts(n) == UNION {[1..k -> Alphabet] : k \in 0..n}

\* The bot commands, and one that is none.
Commands ==
    { <<"/", "s", "t", "a", "r", "t">>, <<"/", "h", "e", "l", "p">>,
      <<"/", "a", "p", "p">>, <<"/", "i">> }

\* The media a message carries with the album it belongs to.
Attachments ==
    { <<"none", None>>, <<"photo", None>>, <<"photo", Str("album")>>,
      <<"image_document", None>>, <<"other_document", None>> }

\* The messages of the group chat.
GroupMessages ==
    {Message("group", sender, a[1], text, a[2]) :
        sender \in Senders, a \in Attachments, text \in Texts(MaxTextLen)}
    \cup {Message("group", sender, "none", text, None) :
            sender \in Senders, text \in Commands}

\* Messages of a supergroup and of a chat type the endpoint does not serve.
OtherChatMessages ==
    {Message(chat_type, sender, "none", text, None) :
        chat_type \in {"supergroup", "channel"}, sender \in {Alice, OtherBot},
        text \in {<<"#", "i">>, <<"/", "s", "t", "a", "r", "t">>}}

\* ------------------------------------------------------------------ storage

Range(f) == {f[k] : k \in DOMAIN f}

NoCommunity == [status |-> "<missing>"]

\* LocalsCommunity.get_by_chat_id: the documents find_one may return.
get_community_by_chat_id(coms, chatId) ==
    IF \E c \in coms : c.chatId = chatId
    THEN {c \in coms : c.chatId = chatId}
    ELSE {NoCommunity}

\* LocalsCommunity.create
create_community(id, chatId, name, language) ==
    [id |-> id, chatId |-> chatId, name |-> name, language |-> language,
     status |-> "SETUP"]

\* LocalsCommunity.update with the setup data: $set of status, language,
\* location and entitySettings.
update_community(coms, communityId, setup_data) ==
    {IF c.id = communityId
     THEN [id |-> c.id, chatId |-> c.chatId, name |-> c.name,
           status |-> "READY", language |-> setup_data.language,
           location |-> setup_data.location,
           entitySettings |-> setup_data.entitySettings]
     ELSE c : c \in coms}

\* A status gate that lets every community pass.
StatusOf_ready(community) == "READY"

\* community.get('status', 'SETUP')
StatusOf(community) == community.status

\* LocalsUser.create
create_user(id, user_communities) ==
    [communities |-> user_communities, chatId |-> None, notificationsEnabled |-> FALSE]

\* An $addToSet that appends whether or not the set holds the community.
add_community_push(us, user_id, community_id) ==
    IF user_id \notin DOMAIN us
    THEN us @@ (user_id :> [communities |-> <<community_id>>])
    ELSE [us EXCEPT ![user_id].communities = Append(@, community_id)]

\* LocalsUser.add_community: $addToSet with upsert.
add_community(us, user_id, community_id) ==
    IF user_id \notin DOMAIN us
    THEN us @@ (user_id :> [communities |-> <<community_id>>])
    ELSE IF community_id \in Range(us[user_id].communities) THEN us
    ELSE [us EXCEPT ![user_id].communities = Append(@, community_id)]

\* ServiceManager.add_user_to_community_if_not_exists
add_user_to_community_if_not_exists(us, user_id, community_id) ==
    IF user_id \notin DOMAIN us
    THEN us @@ (user_id :> create_user(user_id, <<community_id>>))
    ELSE IF community_id \notin Range(us[user_id].communities)
    THEN add_community(us, user_id, community_id)
    ELSE us

\* ----------------------------------------------------------- hashtag router

\* entitySettings: the hashtag of each kind, in the order of the dict's keys.
Setting(key, value) == [key |-> key, value |-> value]

DefaultSettings ==
    << Setting("eventHashtag", <<"#", "e", "v", "e", "n", "t">>),
       Setting("itemHashtag", <<"#", "i", "t", "e", "m">>),
       Setting("serviceHashtag", <<"#", "s", "e", "r", "v", "i", "c", "e">>),
       Setting("newsHashtag", <<"#", "n", "e", "w", "s">>) >>

\* The settings in which one kind has the given hashtag.
SettingsWith(kind, hashtag) ==
    [k \in DOMAIN DefaultSettings |->
        IF DefaultSettings[k].key = kind \o "Hashtag"
        THEN Setting(DefaultSettings[k].key, hashtag)
        ELSE DefaultSettings[k]]

\* The settings a community is set up with.
SettingsChoices ==
    {SettingsWith(kind, <<"#", "i">>) : kind \in Kinds}
    \cup {SettingsWith("item", <<"#", "I">>)}

\* entity_settings[key]
SettingValue(entity_settings, key) ==
    entity_settings[CHOOSE k \in DOMAIN entity_settings : entity_settings[k].key = key].value

\* community.get('entitySettings', {...})
entity_settings_of(community) ==
    IF "entitySettings" \in DOMAIN community THEN community.entitySettings
    ELSE DefaultSettings

\* key.replace('Hashtag', '')
without_hashtag_suffix(key) ==
    CASE key = "eventHashtag" -> "event"
      [] key = "itemHashtag" -> "item"
      [] key = "serviceHashtag" -> "service"
      [] key = "newsHashtag" -> "news"
      [] OTHER -> key

valid_hashtags(entity_settings) ==
    {lower(SettingValue(entity_settings, key)) :
        key \in {"eventHashtag", "newsHashtag", "itemHashtag", "serviceHashtag"}}

\* The first key, in the dict's order, whose value lowercased is the hashtag.
RECURSIVE first_key_of(_, _)
first_key_of(entity_settings, hashtag) ==
    IF entity_settings = <<>> THEN Absent
    ELSE IF lower(Head(entity_settings).value) = hashtag THEN Head(entity_settings).key
    ELSE first_key_of(Tail(entity_settings), hashtag)

NoMatch == [entity_type |-> Absent, hashtag |-> <<>>]

\* The loop over the hashtags found.
RECURSIVE first_valid_hashtag(_, _)
first_valid_hashtag(hashtags, entity_settings) ==
    IF hashtags = <<>> THEN NoMatch
    ELSE IF Head(hashtags) \in valid_hashtags(entity_settings)
    THEN [entity_type |->
              without_hashtag_suffix(first_key_of(entity_settings, Head(hashtags))),
          hashtag |-> Head(hashtags)]
    ELSE first_valid_hashtag(Tail(hashtags), entity_settings)

\* The loop leaving at the first hashtag found, valid or not.
extract_entity_type_first_only(text, entity_settings) ==
    IF findall_hashtags(lower(text)) = <<>> THEN NoMatch
    ELSE first_valid_hashtag(<<Head(findall_hashtags(lower(text)))>>, entity_settings)

extract_entity_type_from_hashtag(text, entity_settings) ==
    first_valid_hashtag(findall_hashtags(lower(text)), entity_settings)

\* text.replace(f'#{hashtag}', '').strip()
text_without_hashtag(text, hashtag) == strip(str_replace(text, <<"#">> \o hashtag))

\* ------------------------------------------------- ingestion orchestrator

\* What the handling of a request has done so far: the collections, the uuid4()
\* draws, the call of the adapter, the exception that left the handler, the
\* reaction set on the message, the messages sent to the chat, what the
\* orchestrator returned and the record it had to persist after the fill step.
Begin ==
    [communities |-> communities, users |-> users, entities |-> entities,
     mediaGroups |-> mediaGroups, uuid |-> uuid, ai |-> NoCall, raised |-> "",
     reaction |-> FALSE, sent |-> <<>>, returned |-> "none", record |-> <<>>]

Raise(st, exc) == [st EXCEPT !.raised = exc]

\* f"{first_name} {last_name}".strip()
author_of(sender) ==
    Str(IF sender.last_name = Absent THEN sender.first_name
        ELSE sender.first_name \o " " \o sender.last_name)

\* A fill loop that leaves the author to the default supplier.
fill_value_default_author(key, message, community, message_id, u) ==
    CASE key = "userId" -> IntV(message.from.id)
      [] key = "communityId" -> community.id
      [] key = "messageId" -> message_id
      [] key = "mediaGroupId" ->
            IF HasKey(message, "media_group_id") THEN message.media_group_id
            ELSE default_value(key, u)
      [] OTHER -> default_value(key, u)

\* The value the fill loop gives a key the mapping lacks; u is the number of
\* uuid4() values drawn before.
fill_value(key, message, community, message_id, u) ==
    CASE key = "author" -> author_of(message.from)
      [] key = "userId" -> IntV(message.from.id)
      [] key = "communityId" -> community.id
      [] key = "messageId" -> message_id
      [] key = "mediaGroupId" ->
            IF HasKey(message, "media_group_id") THEN message.media_group_id
            ELSE default_value(key, u)
      [] OTHER -> default_value(key, u)

\* Whether filling the key draws a uuid4().
DrawsUuid(key, message) ==
    key = "id" \/ (key = "mediaGroupId" /\ ~HasKey(message, "media_group_id"))

\* "Populate missing fields": the loop over the structure's entries in order.
\* The result is the mapping and the number of uuid4() values drawn.
RECURSIVE fill(_, _, _, _, _, _)
fill(fields, info, message, community, message_id, u) ==
    IF fields = <<>> THEN [info |-> info, uuid |-> u]
    ELSE LET key == Head(fields).key
         IN IF key \in DOMAIN info
            THEN fill(Tail(fields), info, message, community, message_id, u)
            ELSE fill(Tail(fields),
                      info @@ (key :> fill_value(key, message, community, message_id, u)),
                      message, community, message_id,
                      IF DrawsUuid(key, message) THEN u + 1 ELSE u)

\* The keyword parameters of ServiceManager.create_item, create_service,
\* create_event and create_news.
create_parameters(kind) ==
    {"id", "title", "author", "userId", "publishedAt", "category", "description",
     "communityId", "messageId", "mediaGroupId"}
    \cup (CASE kind \in {"item", "service"} -> {"price", "currency"}
            [] kind = "event" -> {"date"}
            [] OTHER -> {})

\* A creation that reports success and inserts nothing.
create_entity_nothing(ents, kind, info, fault) == [raised |-> "", entities |-> ents]

\* A creation whose storage failure goes unreported.
create_entity_unreported(ents, kind, info, fault) ==
    IF DOMAIN info # create_parameters(kind)
    THEN [raised |-> "TypeError", entities |-> ents]
    ELSE IF fault = "create_entity" THEN [raised |-> "", entities |-> ents]
    ELSE [raised |-> "", entities |-> ents \cup {[kind |-> kind, doc |-> info]}]

\* service_manager.create_<kind>(**extracted_info): the exception raised ("" for
\* none) and the collection afterwards.
create_entity(ents, kind, info, fault) ==
    IF DOMAIN info # create_parameters(kind)
    THEN [raised |-> "TypeError", entities |-> ents]
    ELSE IF fault = "create_entity"
    THEN [raised |-> "PyMongoError", entities |-> ents]
    ELSE IF \E e \in ents : e.kind = kind /\ e.doc.id = info.id
    THEN [raised |-> "DuplicateKeyError", entities |-> ents]
    ELSE [raised |-> "", entities |-> ents \cup {[kind |-> kind, doc |-> info]}]

\* process_image_or_document: the public URL of the uploaded image, or None.
process_image_or_document(message, fault) ==
    IF HasKey(message, "photo") \/ message.media = "image_document"
    THEN IF fault = "process_image" THEN None ELSE V("str", "image", message.message_id)
    ELSE None

\* MediaGroup.create: the exception raised and the collection afterwards.
create_media_group(groups, id, images, fault) ==
    IF fault = "create_media_group" THEN [raised |-> "PyMongoError", mediaGroups |-> groups]
    ELSE IF id \in DOMAIN groups
    THEN [raised |-> "DuplicateKeyError", mediaGroups |-> groups]
    ELSE [raised |-> "", mediaGroups |-> groups @@ (id :> images)]

\* An append that creates the group it does not find.
add_image_upsert(groups, id, image) ==
    IF id \in DOMAIN groups THEN [groups EXCEPT ![id] = Append(@, image)]
    ELSE groups @@ (id :> <<image>>)

\* An add_image that sets the list to the new image: $set in place of $push.
add_image_set(groups, id, image) ==
    IF id \in DOMAIN groups THEN [groups EXCEPT ![id] = <<image>>] ELSE groups

\* ServiceManager.add_image_to_media_group, MediaGroup.add_image: update_one
\* with $push and no upsert.
add_image_to_media_group(groups, id, image) ==
    IF id \in DOMAIN groups THEN [groups EXCEPT ![id] = Append(@, image)]
    ELSE groups

\* The adapter the orchestrator calls: the whole function, or the function
\* entered where it calls the service.
adapter(part, structure, response) ==
    IF part = "process_response" THEN process_response(structure, response)
    ELSE extract_entity_info_with_ai(structure, response)

\* The call of the adapter as the orchestrator sees it.
Call(part, kind, text, hashtag, response, outcome) ==
    [called |-> TRUE, part |-> part, kind |-> kind,
     asked |-> part = "process_response" \/ ~schema_check_raises(get_structure(kind)),
     response |-> response, outcome |-> outcome, text |-> text, hashtag |-> hashtag]

\* The orchestrator from the membership step on, as handle_hashtag runs it:
\* no media group is written, and the message id is always recorded.
hashtag_ingestion(st, message, text, community, fault, response, part) ==
    IF fault = "add_user_to_community_if_not_exists" THEN Raise(st, "PyMongoError")
    ELSE
    LET st1 == [st EXCEPT !.users =
                   add_user_to_community_if_not_exists(@, message.from.id, community.id)]
        match == extract_entity_type_from_hashtag(text, entity_settings_of(community))
        entity_class == get_entity_class(match.entity_type)
        structure == get_structure(entity_class)
        argument == text_without_hashtag(text, match.hashtag)
        outcome == adapter(part, structure, response)
        st2 == [st1 EXCEPT !.ai = Call(part, entity_class, argument, match.hashtag,
                                       response, outcome)]
        filled == fill(structure, outcome.info, message, community,
                       IntV(message.message_id), st.uuid)
        created == create_entity(st.entities, match.entity_type, filled.info, fault)
    IN IF match.entity_type = Absent THEN st1
       ELSE IF entity_class = Absent THEN st1
       ELSE IF fault = "get_categories_by_community_id" THEN Raise(st1, "PyMongoError")
       ELSE IF outcome.ret = "raise" THEN Raise(st2, outcome.exc)
       ELSE IF outcome.ret = "none" THEN st2
       ELSE IF created.raised # ""
       THEN [st2 EXCEPT !.uuid = filled.uuid, !.record = filled.info]
       ELSE [st2 EXCEPT !.uuid = filled.uuid, !.record = filled.info,
                        !.entities = created.entities,
                        !.reaction = fault # "set_message_reaction"]

\* handle_hashtag
handle_hashtag(st, message, is_caption, community, fault, response, part) ==
    IF message.from.username = Absent THEN Raise(st, "KeyError")
    ELSE IF message.from.username = "GroupAnonymousBot" THEN st
    ELSE IF fault = "get_community_by_chat_id" THEN Raise(st, "PyMongoError")
    ELSE IF community = NoCommunity THEN st
    ELSE IF StatusOf(community) # "READY" THEN st
    ELSE hashtag_ingestion(st, message, IF is_caption THEN message.caption ELSE message.text,
                           community, fault, response, part)

\* handle_command
handle_command(st, message, command, found, fault) ==
    IF fault = "get_community_by_chat_id" THEN Raise(st, "PyMongoError")
    ELSE IF found = NoCommunity /\ fault = "create_community" THEN Raise(st, "PyMongoError")
    ELSE
    LET community ==
            IF found = NoCommunity
            THEN create_community(Uuid(st.uuid), message.chat.id, message.chat.title, "en")
            ELSE found
        st1 == IF found = NoCommunity
               THEN [st EXCEPT !.communities = @ \cup {community}, !.uuid = @ + 1]
               ELSE st
        st2 == IF message.from.username # "GroupAnonymousBot"
               THEN [st1 EXCEPT !.users =
                        add_user_to_community_if_not_exists(@, message.from.id, community.id)]
               ELSE st1
        key == CASE command = <<"/", "s", "t", "a", "r", "t">> -> "welcome"
                 [] command = <<"/", "h", "e", "l", "p">> -> "help"
                 [] command = <<"/", "a", "p", "p">> -> "community_app"
                 [] OTHER -> Absent
    IN IF message.from.username # "GroupAnonymousBot"
          /\ fault = "add_user_to_community_if_not_exists"
       THEN Raise(st1, "PyMongoError")
       ELSE IF key = Absent THEN st2
       ELSE IF fault = "send_message" THEN Raise(st2, "ConnectionError")
       ELSE [st2 EXCEPT !.sent = Append(@, key)]

\* handle_group_message
handle_group_message(st, message, community, fault, response, part) ==
    IF message.from.is_bot /\ message.from.username # "GroupAnonymousBot" THEN st
    ELSE IF startswith(message.text, <<"/">>)
    THEN handle_command(st, message, message.text, community, fault)
    ELSE IF Contains(message.text, <<"#">>)
    THEN handle_hashtag(st, message, FALSE, community, fault, response, part)
    ELSE IF /\ HasKey(message, "photo") \/ HasKey(message, "document")
            /\ HasKey(message, "caption")
            /\ Contains(message.caption, <<"#">>)
    THEN IF HasKey(message, "document") /\ message.media # "image_document" THEN st
         ELSE handle_hashtag(st, message, TRUE, community, fault, response, part)
    ELSE st

\* handle_telegram_event, for an event that holds a message: what the handling
\* did, with the exception (if any) caught and logged.
handle_telegram_event(st, message, community, fault, response, part) ==
    IF message.chat.type \in {"group", "supergroup"}
    THEN handle_group_message(st, message, community, fault, response, part)
    ELSE st

\* An endpoint that lets the exception through.
webhook_response_uncaught(exc) ==
    [status |-> IF exc = "" THEN "ok" ELSE "error", code |-> IF exc = "" THEN 200 ELSE 500]

\* The response of the endpoint to an event whose handling raised exc ("" for
\* none): the exception is caught, the response is always the same.
webhook_response(exc) == [status |-> "ok", code |-> 200]

\* handle_entity_creation_from_hashtag
handle_entity_creation_from_hashtag(st, message, community, is_caption, is_private, fault, response, part) ==
    IF ~HasKey(message, IF is_caption THEN "caption" ELSE "text") THEN Raise(st, "KeyError")
    ELSE IF StatusOf(community) # "READY" THEN st
    ELSE IF fault = "add_user_to_community_if_not_exists" THEN Raise(st, "PyMongoError")
    ELSE
    LET text == IF is_caption THEN message.caption ELSE message.text
        st1 == [st EXCEPT !.users =
                   add_user_to_community_if_not_exists(@, message.from.id, community.id)]
        match == extract_entity_type_from_hashtag(text, entity_settings_of(community))
        entity_class == get_entity_class(match.entity_type)
        structure == get_structure(entity_class)
        argument == text_without_hashtag(text, match.hashtag)
        outcome == adapter(part, structure, response)
        st2 == [st1 EXCEPT !.ai = Call(part, entity_class, argument, match.hashtag,
                                       response, outcome)]
        filled == fill(structure, outcome.info, message, community,
                       IF is_private THEN None ELSE IntV(message.message_id), st.uuid)
        image_url == process_image_or_document(message, fault)
        group == IF image_url # None
                 THEN create_media_group(st.mediaGroups, filled.info.mediaGroupId,
                                         <<image_url>>, fault)
                 ELSE [raised |-> "", mediaGroups |-> st.mediaGroups]
        st3 == [st2 EXCEPT !.uuid = filled.uuid, !.record = filled.info,
                           !.mediaGroups = group.mediaGroups]
        created == create_entity(st.entities, match.entity_type, filled.info, fault)
    IN IF match.entity_type = Absent THEN st1
       ELSE IF entity_class = Absent THEN st1
       ELSE IF fault = "get_categories_by_community_id" THEN Raise(st1, "PyMongoError")
       ELSE IF outcome.ret = "raise" THEN Raise(st2, outcome.exc)
       ELSE IF outcome.ret = "none" THEN st2
       ELSE IF group.raised # "" THEN Raise(st3, group.raised)
       ELSE IF created.raised # "" THEN st3
       ELSE [st3 EXCEPT !.entities = created.entities,
                        !.reaction = fault # "set_message_reaction",
                        !.returned = IF fault = "set_message_reaction" THEN "none"
                                     ELSE "entity"]

\* ----------------------------------------------------- deleting an entity

\* BaseEntity.delete behind ServiceManager.delete_<kind>: find_one_and_delete
\* by _id, communityId and userId in the kind's collection, then format_entity,
\* which raises TypeError on the None of a document not found.
delete_entity(ents, kind, id, communityId, userId) ==
    LET found == {e \in ents : /\ e.kind = kind
                                /\ e.doc.id = id
                                /\ e.doc.communityId = communityId
                                /\ e.doc.userId = IntV(userId)}
    IN IF found = {} THEN [raised |-> "TypeError", deleted |-> <<>>, entities |-> ents]
       ELSE LET e == CHOOSE e \in found : TRUE
            IN [raised |-> "", deleted |-> e.doc, entities |-> ents \ {e}]

\* The media groups without the one of the id.
without_group(groups, id) ==
    IF DOMAIN groups \subseteq {id} THEN <<>>
    ELSE [k \in DOMAIN groups \ {id} |-> groups[k]]

\* A clean-up that deletes the images and keeps the group.
delete_images_only(groups, entity, fault) ==
    [raised |-> IF entity.mediaGroupId # None /\ fault = "get_media_groups"
                THEN "PyMongoError" ELSE "",
     mediaGroups |-> groups]

\* delete_images_if_exists: the images of the entity's media group are deleted
\* from the bucket, a failure of one being logged, and then the group.
delete_images_if_exists(groups, entity, fault) ==
    IF entity.mediaGroupId = None THEN [raised |-> "", mediaGroups |-> groups]
    ELSE IF fault = "get_media_groups" THEN [raised |-> "PyMongoError", mediaGroups |-> groups]
    ELSE IF entity.mediaGroupId \notin DOMAIN groups
    THEN [raised |-> "", mediaGroups |-> groups]
    ELSE IF groups[entity.mediaGroupId] = <<>> THEN [raised |-> "", mediaGroups |-> groups]
    ELSE IF fault = "delete_media_group" THEN [raised |-> "PyMongoError", mediaGroups |-> groups]
    ELSE [raised |-> "", mediaGroups |-> without_group(groups, entity.mediaGroupId)]

\* The external calls that may fail while an entity is deleted.
DeleteFaults == {"none", "get_media_groups", "blob_delete", "delete_media_group"}

\* DELETE /api/items/<id>, /api/services/<id>, /api/events/<id> and
\* /api/news/<id> behind token_required: the status code, with the entities
\* and the media groups afterwards.
delete_item(ents, groups, kind, id, community, user_id, is_admin, fault) ==
    IF community.status # "READY" THEN [code |-> 403, entities |-> ents, mediaGroups |-> groups]
    ELSE LET deleted == delete_entity(ents, kind, id, community.id, user_id)
             images == delete_images_if_exists(groups, deleted.deleted, fault)
         IN IF deleted.raised # ""
            THEN [code |-> 500, entities |-> ents, mediaGroups |-> groups]
            ELSE IF images.raised # ""
            THEN [code |-> 500, entities |-> deleted.entities, mediaGroups |-> groups]
            ELSE [code |-> 200, entities |-> deleted.entities,
                  mediaGroups |-> images.mediaGroups]

\* ------------------------------------------------------ private messages

\* $set of one field of a user document.
set_user_field(us, user_id, field, value) ==
    [us EXCEPT ![user_id] =
        [k \in DOMAIN @ \cup {field} |-> IF k = field THEN value ELSE @[k]]]

\* "Get or create LocalsUser": a new user is created with the private chat's
\* id, a user without one has it set.
get_or_create_user(us, user_id, chat_id) ==
    IF user_id \notin DOMAIN us
    THEN us @@ (user_id :> [communities |-> <<>>, chatId |-> IntV(chat_id),
                            notificationsEnabled |-> FALSE])
    ELSE IF "chatId" \notin DOMAIN us[user_id] \/ us[user_id].chatId = None
    THEN set_user_field(us, user_id, "chatId", IntV(chat_id))
    ELSE us

\* The private messages that write to the store: a chat shared for joining
\* (request 1), for creating a community (request 2) or for nothing the bot
\* asked for, and the command that enables notifications.
PrivateContents ==
    {[kind |-> "chat_shared", request_id |-> r] : r \in 1..3}
    \cup {[kind |-> "command", request_id |-> 0]}

\* handle_chat_shared
handle_chat_shared(st, user_id, request_id, community, fault) ==
    IF request_id \notin {1, 2} THEN st
    ELSE IF request_id = 1
    THEN IF community = NoCommunity THEN st
         ELSE [st EXCEPT !.users = add_community(@, user_id, community.id)]
    ELSE IF fault = "get_chat_administrators" THEN st
    ELSE IF community # NoCommunity THEN st
    ELSE LET created == create_community(Uuid(st.uuid), 100, "Locals", "en")
         IN [st EXCEPT !.communities = @ \cup {created}, !.uuid = @ + 1,
                       !.users = add_community(@, user_id, created.id)]

\* handle_private_message, for a shared chat and for /enable_notifications.
handle_private_message(st, sender, content, community, fault) ==
    IF sender.is_bot THEN st
    ELSE LET st1 == [st EXCEPT !.users = get_or_create_user(@, sender.id, sender.id)]
         IN IF content.kind = "command"
            THEN [st1 EXCEPT !.users =
                     set_user_field(@, sender.id, "notificationsEnabled", TRUE)]
            ELSE handle_chat_shared(st1, sender.id, content.request_id, community, fault)

\* ------------------------------------------------------- community setup

\* The JSON body of a setup request; Absent stands for a missing or empty
\* value.
SetupRequests ==
    {[language |-> language, location |-> "here", entitySettings |-> entity_settings] :
        language \in {"en", "xx", Absent},
        entity_settings \in SettingsChoices \cup {<<>>}}

\* is_language_supported
is_language_supported(language) == language \in {"en", "ru"}

\* A setup that does not look at the status.
setup_community_again(coms, community, is_admin, setup_data, fault) ==
    IF community = NoCommunity THEN [code |-> 404, communities |-> coms]
    ELSE IF ~is_admin THEN [code |-> 403, communities |-> coms]
    ELSE IF setup_data.language = Absent \/ setup_data.entitySettings = <<>>
    THEN [code |-> 400, communities |-> coms]
    ELSE [code |-> 200, communities |-> update_community(coms, community.id, setup_data)]

\* POST /api/community/_setup behind token_required: the status code, with
\* the communities afterwards.
setup_community(coms, community, is_admin, setup_data, fault) ==
    IF community = NoCommunity THEN [code |-> 404, communities |-> coms]
    ELSE IF fault = "get_chat_administrators" THEN [code |-> 500, communities |-> coms]
    ELSE IF ~is_admin THEN [code |-> 403, communities |-> coms]
    ELSE IF community.status = "READY" THEN [code |-> 400, communities |-> coms]
    ELSE IF setup_data.language = Absent \/ setup_data.entitySettings = <<>>
    THEN [code |-> 400, communities |-> coms]
    ELSE IF ~is_language_supported(setup_data.language)
    THEN [code |-> 400, communities |-> coms]
    ELSE [code |-> 200, communities |-> update_community(coms, community.id, setup_data)]

\* ------------------------------------------------------------------ actions

\* The external calls that may fail while an event is handled.
WebhookFaults == {"none", "get_community_by_chat_id", "send_message"}

OrchestratorFaults ==
    {"none", "add_user_to_community_if_not_exists", "get_categories_by_community_id",
     "process_image", "create_media_group", "create_entity", "set_message_reaction"}

\* The answers of the service to a call of the orchestrator.
AnswerInfos ==
    { <<>>, ("title" :> Str("Bike")), ("price" :> Str("150")),
      ("communityId" :> Str("Bike")) }

GoodAnswer == Response(TRUE, "dict", ("title" :> Str("Bike")), IntV(80))

Answers ==
    {ApiError, Response(FALSE, "absent", <<>>, NoValue)}
    \cup {Response(TRUE, "dict", info, IntV(80)) : info \in AnswerInfos}

\* The service is asked only by a call that passes the schema check.
AnswersOf(part) ==
    IF part = "extract_entity_info_with_ai"
       /\ \A kind \in Kinds : schema_check_raises(get_structure(kind))
    THEN {NotAsked}
    ELSE Answers

\* An answer with no failing call, or a failing call with the good answer.
Scenarios(answers, faults) ==
    {<<response, "none">> : response \in answers}
    \cup {<<IF GoodAnswer \in answers THEN GoodAnswer ELSE NotAsked, fault>> :
            fault \in faults}

\* The hashtag messages handed to the orchestrator.
HashtagTexts == { <<"#", "i">>, <<"#", "i", "i">> }

HashtagMessages ==
    {Message("group", Alice, a[1], text, a[2]) :
        a \in {<<"none", None>>, <<"photo", None>>, <<"photo", Str("album")>>},
        text \in HashtagTexts}
    \cup {Message("group", Bob, "none", <<"#", "i">>, None)}

\* The media_group_id values of the messages handed to the orchestrators.
MessageMediaGroupIds == {message.media_group_id : message \in HashtagMessages} \ {None}

Written(st, ev, res) ==
    /\ st.uuid <= MaxUuid
    /\ Cardinality(st.entities) <= MaxEntities
    /\ communities' = st.communities
    /\ users' = st.users
    /\ entities' = st.entities
    /\ mediaGroups' = st.mediaGroups
    /\ uuid' = st.uuid
    /\ ai' = st.ai
    /\ event' = ev
    /\ result' = res
    /\ handlers' = handlers

\* POST /bot with an event that holds a message.
TelegramEvent(messages, faults, part) ==
    /\ event = NoEvent
    /\ Cardinality(entities) < MaxEntities
    /\ \E message \in messages, scenario \in Scenarios(AnswersOf(part), faults) :
       \E community \in get_community_by_chat_id(communities, message.chat.id) :
          LET st == handle_telegram_event(Begin, message, community, scenario[2],
                                          scenario[1], part)
          IN Written(st,
                     [type |-> "webhook", message |-> message, fault |-> scenario[2]],
                     [status |-> webhook_response(st.raised).status,
                      raised |-> st.raised, reaction |-> st.reaction, sent |-> st.sent,
                      record |-> st.record])

\* A call of handle_entity_creation_from_hashtag.
EntityCreation(messages, faults, part) ==
    /\ event = NoEvent
    /\ Cardinality(entities) < MaxEntities
    /\ \E message \in messages, scenario \in Scenarios(AnswersOf(part), faults),
          community \in communities, is_caption \in BOOLEAN, is_private \in BOOLEAN :
          LET st == handle_entity_creation_from_hashtag(
                        Begin, message, community, is_caption, is_private,
                        scenario[2], scenario[1], part)
          IN Written(st,
                     [type |-> "entity_creation", message |-> message,
                      community |-> community, is_caption |-> is_caption,
                      is_private |-> is_private, fault |-> scenario[2]],
                     [status |-> IF st.raised = "" THEN "returned" ELSE "raised",
                      raised |-> st.raised, reaction |-> st.reaction, sent |-> st.sent,
                      record |-> st.record])

\* POST /api/community/_setup
SetupCommunity ==
    /\ event = NoEvent
    /\ \E community \in communities \cup {NoCommunity}, is_admin \in BOOLEAN,
          setup_data \in SetupRequests, fault \in {"none", "get_chat_administrators"} :
          LET done == setup_community(communities, community, is_admin, setup_data, fault)
          IN /\ communities' = done.communities
             /\ event' = [type |-> "setup", community |-> community,
                          is_admin |-> is_admin, setup_data |-> setup_data,
                          fault |-> fault]
             /\ result' = [status |-> done.code]
             /\ UNCHANGED <<users, entities, mediaGroups, uuid, ai, handlers>>

\* POST /bot with a message of a private chat.
PrivateMessage ==
    /\ event = NoEvent
    /\ \E sender \in {Alice, Bob, OtherBot}, content \in PrivateContents,
          fault \in {"none", "get_chat_administrators"} :
       \E community \in get_community_by_chat_id(communities, 100) :
          LET st == handle_private_message(Begin, sender, content, community, fault)
          IN Written(st,
                     [type |-> "private", from |-> sender, content |-> content,
                      community |-> community, fault |-> fault,
                      member |-> /\ community # NoCommunity
                                 /\ sender.id \in DOMAIN users
                                 /\ community.id \in Range(users[sender.id].communities)],
                     [status |-> webhook_response(st.raised).status,
                      raised |-> st.raised, reaction |-> st.reaction, sent |-> st.sent,
                      record |-> st.record])

\* A kind other than the given one.
OtherKind(kind) == IF kind = "item" THEN "service" ELSE "item"

\* A request to delete an entity of the store through the route of its kind or
\* of another kind, by its owner or by someone else; an external call fails
\* only in a request of the owner through the route of the entity's kind.
DeleteEntity ==
    /\ event = NoEvent
    /\ \E e \in entities, community \in communities,
          user_id \in {Alice.id, Bob.id}, is_admin \in BOOLEAN, fault \in DeleteFaults :
       \E kind \in {e.kind, OtherKind(e.kind)} :
          LET done == delete_item(entities, mediaGroups, kind, e.doc.id, community,
                                  user_id, is_admin, fault)
          IN /\ fault # "none" =>
                   (kind = e.kind /\ IntV(user_id) = e.doc.userId /\ ~is_admin)
             /\ entities' = done.entities
             /\ mediaGroups' = done.mediaGroups
             /\ event' = [type |-> "delete", kind |-> kind, entity |-> e,
                          community |-> community, user_id |-> user_id,
                          is_admin |-> is_admin, fault |-> fault]
             /\ result' = [status |-> done.code]
             /\ UNCHANGED <<communities, users, uuid, ai, handlers>>

\* A follow-up image of an album: add_image_to_media_group with the album's
\* media_group_id.
AddImageToMediaGroup ==
    /\ event = NoEvent
    /\ \E id \in MessageMediaGroupIds :
          LET image == V("str", "image", 8)
          IN /\ id \in DOMAIN mediaGroups => Len(mediaGroups[id]) < MaxImages
             /\ mediaGroups' = add_image_to_media_group(mediaGroups, id, image)
             /\ event' = [type |-> "add_image", id |-> id, image |-> image]
             /\ result' = [status |-> "returned"]
             /\ UNCHANGED <<communities, users, entities, uuid, ai, handlers>>

\* The request is over: the next one finds the handler as the first did.
Finish ==
    /\ event # NoEvent
    /\ event' = NoEvent
    /\ ai' = NoCall
    /\ result' = NoResult
    /\ UNCHANGED <<store, handlers>>

\* The program: the webhook, the setup request and the orchestrator, with the
\* adapter as it is.
Next ==
    \/ TelegramEvent(GroupMessages \cup OtherChatMessages, WebhookFaults,
                     "extract_entity_info_with_ai")
    \/ EntityCreation(HashtagMessages, OrchestratorFaults, "extract_entity_info_with_ai")
    \/ SetupCommunity
    \/ Finish

Spec == Init /\ [][Next]_vars

\* The commands and hashtag messages of the group chat.
CommunityMessages ==
    {Message("group", sender, "none", text, None) :
        sender \in Senders, text \in Commands \cup HashtagTexts}

\* The life of communities and memberships: the group chat's commands and
\* hashtag messages, the private chat and the setup request.
NextCommunity ==
    \/ TelegramEvent(CommunityMessages, WebhookFaults, "extract_entity_info_with_ai")
    \/ PrivateMessage
    \/ SetupCommunity
    \/ Finish

SpecCommunity == Init /\ [][NextCommunity]_vars

\* The orchestrators in a community that is set up, with the adapter entered
\* where the service is called: the schema check is taken as passed.
InitOrchestrator ==
    /\ \E kind \in Kinds :
          communities =
              update_community(
                  {create_community(Uuid(0), 100, "Locals", "en")}, Uuid(0),
                  [language |-> "en", location |-> "here",
                   entitySettings |-> SettingsWith(kind, <<"#", "i">>)])
    /\ users = <<>>
    /\ entities = {}
    /\ mediaGroups = <<>>
    /\ uuid = 1
    /\ event = NoEvent
    /\ ai = NoCall
    /\ result = NoResult
    /\ handlers = <<>>

NextOrchestrator ==
    \/ TelegramEvent(HashtagMessages, OrchestratorFaults, "process_response")
    \/ EntityCreation(HashtagMessages, OrchestratorFaults, "process_response")
    \/ Finish

SpecOrchestrator == InitOrchestrator /\ [][NextOrchestrator]_vars

\* The hashtag messages of a member with a username: a text, a photo and a
\* photo of an album.
MediaMessages == {message \in HashtagMessages :
                    message.from = Alice /\ ScannedText(message) = <<"#", "i">>}

\* The failures that leave a media group or an entity unwritten.
MediaFaults == {"none", "process_image", "create_media_group", "create_entity"}

\* The life of entities and media groups in a community that is set up: the
\* orchestrators with the adapter entered where the service is called, the
\* follow-up images and the delete requests.
NextMedia ==
    \/ TelegramEvent(MediaMessages, MediaFaults, "process_response")
    \/ EntityCreation(MediaMessages, MediaFaults, "process_response")
    \/ AddImageToMediaGroup
    \/ DeleteEntity
    \/ Finish

SpecMedia == InitOrchestrator /\ [][NextMedia]_vars

\* ------------------------------------------- properties of the ingestion

\* A message the router takes for a hashtag message.
IsHashtagMessage(message) ==
    /\ Contains(ScannedText(message), <<"#">>)
    /\ ~startswith(message.text, <<"/">>)

Collections == <<communities, users, entities, mediaGroups>>

\* C3: a hashtag message whose chat has no community or one that is not READY,
\* or whose sender is the anonymous-admin proxy or another bot, makes no
\* extraction call and leaves entities, media groups and users as they were;
\* so does a call of the orchestrator for a community that is not READY.
C3_RejectedMessageWritesNothing ==
    [][ ( /\ event = NoEvent
          /\ event'.type \in {"webhook", "entity_creation"}
          /\ IsHashtagMessage(event'.message)
          /\ IF event'.type = "entity_creation"
             THEN event'.community.status # "READY"
             ELSE \/ \A c \in communities :
                        c.chatId = event'.message.chat.id => c.status # "READY"
                  \/ event'.message.from.username = "GroupAnonymousBot"
                  \/ event'.message.from.is_bot )
        => ( /\ ~ai'.called
             /\ entities' = entities
             /\ mediaGroups' = mediaGroups
             /\ users' = users ) ]_vars

\* The anonymous-admin proxy sent the configured hashtag to a READY community:
\* no extraction call was made and the proxy is no user.
C3_Witness ==
    /\ event.type = "webhook"
    /\ event.message.from = AnonymousAdmin
    /\ event.message.text = <<"#", "i">>
    /\ \E c \in communities :
          /\ c.status = "READY"
          /\ SettingValue(c.entitySettings, "itemHashtag") = <<"#", "i">>
    /\ ~ai.called
    /\ AnonymousAdmin.id \notin DOMAIN users
    /\ result.raised = ""

\* C4: a message of a member with a username in a READY community whose text
\* holds '#' but no configured hashtag is a no-op: the collections are left
\* unchanged and no extraction call is made.
C4_NoMatchIsNoOp ==
    [][ ( /\ event = NoEvent
          /\ event'.type = "webhook"
          /\ event'.fault = "none"
          /\ IsHashtagMessage(event'.message)
          /\ ~event'.message.from.is_bot
          /\ event'.message.from.username # Absent
          /\ \E c \in communities :
                /\ c.chatId = event'.message.chat.id
                /\ c.status = "READY"
                /\ \A k \in DOMAIN c.entitySettings :
                      \A h \in Range(findall_hashtags(lower(ScannedText(event'.message)))) :
                         lower(c.entitySettings[k].value) # h )
        => ( /\ Collections' = Collections
             /\ ~ai'.called ) ]_vars

\* C5: the text handed to the adapter does not hold the matched hashtag.
C5_HashtagRemovedFromArgument ==
    (event.type \in {"webhook", "entity_creation"} /\ ai.called)
        => ~Contains(lower(ai.text), ai.hashtag)

\* C10 as stated: an event whose handling raises is answered with status ok and
\* leaves the collections as they were, so that later events are handled as if
\* it had never arrived.
C10_FailedEventLeavesNoTrace ==
    [][ (event = NoEvent /\ event'.type = "webhook" /\ result'.raised # "")
        => (result'.status = "ok" /\ Collections' = Collections) ]_vars

\* C10, amended: an event whose handling raises is answered with status ok and
\* leaves no entity and no media group behind; what it wrote before the raise
\* (a community, a membership) stays.
C10_FailedEventAnswered ==
    [][ (event = NoEvent /\ event'.type = "webhook" /\ result'.raised # "")
        => (result'.status = "ok" /\ entities' = entities /\ mediaGroups' = mediaGroups)
      ]_vars

\* The handling of a member's hashtag message raised in the adapter, was
\* answered with status ok, and the member is in the users collection.
C10_Witness ==
    /\ event.type = "webhook"
    /\ result.raised = "ValueError"
    /\ result.status = "ok"
    /\ event.message.from.id \in DOMAIN users

\* ---------------------------------------- properties of the orchestrator

\* The adapter returned a mapping to the orchestrator.
Extracted ==
    /\ event.type \in {"webhook", "entity_creation"}
    /\ ai.called
    /\ ai.outcome.ret = "mapping"

\* The value a field takes from the source message, with the message id given,
\* or from the schema's default supplier.
FromMessageOrDefault(key, value, message_id) ==
    CASE key = "author" ->
            value = Str(IF event.message.from = Alice THEN "Alice Ames" ELSE "Bob")
      [] key = "userId" -> value = IntV(event.message.from.id)
      [] key = "communityId" -> \E c \in communities : value = c.id
      [] key = "messageId" -> value = message_id
      [] key = "mediaGroupId" ->
            IF event.message.media_group_id # None
            THEN value = event.message.media_group_id
            ELSE value.s = "uuid" /\ value.n < uuid
      [] key = "id" -> value.s = "uuid" /\ value.n < uuid
      [] key = "title" -> value = Str("Untitled")
      [] key = "category" -> value = Str("Uncategorized")
      [] key = "description" -> value = Str("No description provided")
      [] key \in {"publishedAt", "date"} -> value = Datetime("now")
      [] OTHER -> value = None

\* C6 as stated: after the fill step the record to persist holds every field of
\* the kind's schema, and a field the extraction did not supply holds the value
\* taken from the source message (author, userId, communityId, messageId,
\* mediaGroupId of an album) or the default supplier's.
C6_FilledFromMessage ==
    Extracted =>
        /\ KeysOf(get_structure(ai.kind)) \subseteq DOMAIN result.record
        /\ \A key \in KeysOf(get_structure(ai.kind)) \ DOMAIN ai.outcome.info :
              FromMessageOrDefault(key, result.record[key], IntV(event.message.message_id))

\* C6, amended: as above, but a call of the orchestrator for a private chat
\* (is_private) records no message id.
C6_FilledFromMessageUnlessPrivate ==
    Extracted =>
        /\ KeysOf(get_structure(ai.kind)) \subseteq DOMAIN result.record
        /\ \A key \in KeysOf(get_structure(ai.kind)) \ DOMAIN ai.outcome.info :
              FromMessageOrDefault(
                  key, result.record[key],
                  IF event.type = "entity_creation" /\ event.is_private THEN None
                  ELSE IntV(event.message.message_id))

\* The orchestrator, called for a private chat with an empty mapping returned,
\* filled the record without a message id.
C6_Witness ==
    /\ Extracted
    /\ event.type = "entity_creation"
    /\ event.is_private
    /\ ai.outcome.info = <<>>
    /\ result.record.messageId = None
    /\ result.record.author = Str("Alice Ames")
    /\ result.record.title = Str("Untitled")

C9_PersistenceErrorsCaught ==
    Extracted => result.raised = ""

\* -------------------------------------- properties of what ingestion leaves

\* A step that handles a message handed to one of the orchestrators.
Ingestion == event = NoEvent /\ event'.type \in {"webhook", "entity_creation"}

\* C11: an ingestion that persists no entity leaves the media groups as they
\* were: no group it created for the message's image stays in the store.
C11_NoEntityNoMediaGroup ==
    [][ (Ingestion /\ entities' = entities) => mediaGroups' = mediaGroups ]_vars

\* C12: the reaction is set only on a message whose entity has been persisted
\* by this ingestion; when the record built by the fill step is not persisted,
\* no reaction is set and nothing is sent into the chat.
C12_ReactionOnlyAfterPersistence ==
    [][ Ingestion =>
          /\ result'.reaction =>
                \E e \in entities' \ entities : e.doc = result'.record
          /\ (result'.record # <<>> /\ entities' = entities) =>
                (~result'.reaction /\ result'.sent = <<>>) ]_vars

\* The webhook persisted the entity of a hashtag message and set the reaction.
C12_Witness ==
    /\ event.type = "webhook"
    /\ result.reaction
    /\ result.sent = <<>>
    /\ \E e \in entities : e.doc = result.record

\* C13: an image added under an id that has no media group leaves the media
\* groups as they were, and creates none; an image added under the id of a
\* group the store holds becomes the last image of that group, the others
\* staying as they were.
C13_FollowUpImage ==
    [][ (event = NoEvent /\ event'.type = "add_image") =>
          IF event'.id \in DOMAIN mediaGroups
          THEN /\ DOMAIN mediaGroups' = DOMAIN mediaGroups
               /\ mediaGroups'[event'.id] = Append(mediaGroups[event'.id], event'.image)
               /\ \A id \in DOMAIN mediaGroups \ {event'.id} :
                     mediaGroups'[id] = mediaGroups[id]
          ELSE mediaGroups' = mediaGroups ]_vars

\* The album's group, created for the image of the hashtag message, holds the
\* follow-up image after it.
C13_Witness ==
    /\ event.type = "add_image"
    /\ event.id = Str("album")
    /\ Str("album") \in DOMAIN mediaGroups
    /\ mediaGroups[Str("album")] = <<V("str", "image", 7), V("str", "image", 8)>>

\* The message carries a photo or a document of an image type.
CarriesImage(message) == message.media \in {"photo", "image_document"}

\* The ingestion got a mapping from the adapter, and no external call failed.
Proceeds == Ingestion /\ ai'.called /\ ai'.outcome.ret = "mapping" /\ event'.fault = "none"

\* C14: when a hashtag message carries its own image and the ingestion reaches
\* step 4, no exception leaves the ingestion, and afterwards the store holds a
\* media group under the record's mediaGroupId with the message's image in it,
\* whether or not a group with that id was there before.
C14_ImageInMediaGroup ==
    [][ (Proceeds /\ CarriesImage(event'.message)) =>
          /\ result'.raised = ""
          /\ result'.record.mediaGroupId \in DOMAIN mediaGroups'
          /\ V("str", "image", event'.message.message_id)
                \in Range(mediaGroups'[result'.record.mediaGroupId]) ]_vars

\* C15: an entity created from a message with no image and no media_group_id
\* is persisted with mediaGroupId None; and in every state the mediaGroupId of
\* an entity, when not None, is a message's media_group_id or the id of a
\* media group in the store.
C15_NullMediaGroupReference ==
    /\ [][ ( /\ Ingestion
              /\ ~CarriesImage(event'.message)
              /\ event'.message.media_group_id = None )
            => \A e \in entities' \ entities : e.doc.mediaGroupId = None ]_vars
    /\ [](\A e \in entities :
             \/ e.doc.mediaGroupId = None
             \/ e.doc.mediaGroupId \in MessageMediaGroupIds
             \/ e.doc.mediaGroupId \in DOMAIN mediaGroups)

\* ------------------------------- properties of communities and memberships

\* C16: adding a user to a community the user is a member of changes nothing:
\* add_user_to_community and add_user_to_community_if_not_exists leave the
\* users as they are, a private message that joins the community again leaves
\* the membership list and the notification flag as they were, and no
\* membership list holds a community twice.
C16_ReAddIsNoOp ==
    /\ [](\A u \in DOMAIN users :
             /\ \A i, j \in DOMAIN users[u].communities :
                   users[u].communities[i] = users[u].communities[j] => i = j
             /\ \A c \in Range(users[u].communities) :
                   /\ add_community(users, u, c) = users
                   /\ add_user_to_community_if_not_exists(users, u, c) = users)
    /\ [][ ( /\ event = NoEvent
              /\ event'.type = "private"
              /\ event'.content.request_id = 1
              /\ event'.member )
            => /\ users'[event'.from.id].communities = users[event'.from.id].communities
               /\ users'[event'.from.id].notificationsEnabled
                     = users[event'.from.id].notificationsEnabled
               /\ \A u \in DOMAIN users \ {event'.from.id} : users'[u] = users[u] ]_vars

\* A member with notifications enabled shared the community's chat to join
\* it again and is a member once.
C16_Witness ==
    /\ event.type = "private"
    /\ event.content.request_id = 1
    /\ event.member
    /\ users[event.from.id].communities = <<event.community.id>>
    /\ users[event.from.id].notificationsEnabled

\* C17: a community is created with status SETUP; its status is SETUP or
\* READY; a status changes only from SETUP to READY and only in a setup
\* request answered 200; a setup request for a READY community is not
\* answered 200 and leaves the communities as they were.
C17_StatusLifecycle ==
    /\ [](\A c \in communities : c.status \in {"SETUP", "READY"})
    /\ [][ /\ \A d \in communities' :
                 (\A c \in communities : c.id # d.id) => d.status = "SETUP"
           /\ \A c \in communities : \E d \in communities' : d.id = c.id
           /\ \A c \in communities, d \in communities' :
                 (c.id = d.id /\ c.status # d.status) =>
                     ( /\ c.status = "SETUP"
                       /\ d.status = "READY"
                       /\ event'.type = "setup"
                       /\ result'.status = 200 )
           /\ (event'.type = "setup" /\ event'.community.status = "READY") =>
                 (result'.status # 200 /\ communities' = communities) ]_vars

\* An administrator's complete setup request for a READY community was
\* answered 400.
C17_Witness ==
    /\ event.type = "setup"
    /\ event.is_admin
    /\ event.fault = "none"
    /\ event.setup_data.language = "en"
    /\ event.setup_data.entitySettings # <<>>
    /\ event.community.status = "READY"
    /\ event.community \in communities
    /\ result.status = 400

\* ------------------------------------------------ properties of entities

\* C18: the communityId of every entity in the store is the id of exactly one
\* community, and that community is READY.
C18_EntityInReadyCommunity ==
    \A e \in entities :
        /\ Cardinality({c \in communities : c.id = e.doc.communityId}) = 1
        /\ \A c \in communities : c.id = e.doc.communityId => c.status = "READY"

\* C19: after a delete request answered 200 the entity is gone and the store
\* holds no media group under the entity's mediaGroupId.
C19_DeleteCascades ==
    [][ (event = NoEvent /\ event'.type = "delete" /\ result'.status = 200) =>
          /\ event'.entity \notin entities'
          /\ event'.entity.doc.mediaGroupId \notin DOMAIN mediaGroups' ]_vars

\* The entity of a captioned photo was deleted, and its media group with it.
C19_Witness ==
    /\ event.type = "delete"
    /\ result.status = 200
    /\ event.fault = "blob_delete"
    /\ event.entity.doc.mediaGroupId = Str("album")
    /\ event.entity \notin entities
    /\ mediaGroups = <<>>

\* C20: a request to delete an entity of the community through the route of
\* its kind, made by the entity's owner or by an administrator of the
\* community, deletes the entity and is answered 200.
C20_OwnerOrAdminDeletes ==
    [][ ( /\ event = NoEvent
          /\ event'.type = "delete"
          /\ event'.fault = "none"
          /\ event'.kind = event'.entity.kind
          /\ event'.community.id = event'.entity.doc.communityId
          /\ event'.is_admin \/ IntV(event'.user_id) = event'.entity.doc.userId )
        => (result'.status = 200 /\ event'.entity \notin entities') ]_vars

\* ------------------------------------------- the conversion of typed values

\* The types a schema declares for its fields, and values of each.
DeclaredTypes == {"str", "int", "float", "bool", "datetime", "list", "dict"}
TypedValues(value_type) ==
    CASE value_type = "str" -> {Str(""), Str("Bike"), Str("150")}
      [] value_type = "int" -> {IntV(0), IntV(150)}
      [] value_type = "float" -> {FloatV(0), FloatV(150)}
      [] value_type = "bool" -> {BoolV(TRUE), BoolV(FALSE)}
      [] value_type = "datetime" -> {Datetime("2023-07-15T14:00:00")}
      [] value_type = "list" -> {ListV}
      [] value_type = "dict" -> {DictV}

\* The conversion of one field of the mapping, for a value that has the type
\* the field declares.
CoerceTyped ==
    /\ ai = NoCall
    /\ \E value_type \in DeclaredTypes : \E value \in TypedValues(value_type) :
          ai' = [called |-> TRUE, part |-> "coerce", type |-> value_type,
                 value |-> value, converted |-> Coerce(value_type, value)]
    /\ UNCHANGED <<store, event, result, handlers>>

\* The conversion applied once, to a typed value or within the handling of a
\* response.
NextCoerce ==
    \/ CoerceTyped
    \/ \E kind \in Kinds : ProcessResponse(kind)

SpecCoerce == Init /\ [][NextCoerce]_vars

RouterSettings ==
    SettingsChoices
    \cup {[SettingsWith("item", <<"#", "i">>) EXCEPT ![1] = Setting("eventHashtag", <<"#", "i", "i">>)],
          [SettingsWith("news", <<"#", "i">>) EXCEPT ![1] = Setting("eventHashtag", <<"#", "I">>)]}

\* extract_entity_type_from_hashtag applied to a text and the settings of a
\* community.
ExtractEntityType ==
    /\ event = NoEvent
    /\ \E text \in Texts(MaxScanLen), entity_settings \in RouterSettings :
          /\ event' = [type |-> "extract_entity_type", text |-> text,
                       entity_settings |-> entity_settings]
          /\ result' = [status |-> "returned",
                        match |-> extract_entity_type_from_hashtag(text, entity_settings)]
    /\ UNCHANGED <<store, ai, handlers>>

SpecRouter == Init /\ [][ExtractEntityType]_vars

\* A hashtag of the text starts at position p: a '#' followed by a word
\* character.
HashtagStartsAt(text, p) ==
    /\ p < Len(text)
    /\ text[p] = "#"
    /\ IsWordChar(text[p + 1])

\* The hashtag that starts at position p: the '#' and every word character that
\* follows it.
HashtagAt(text, p) ==
    SubSeq(text, p,
           CHOOSE q \in p + 1..Len(text) :
               /\ \A j \in p + 1..q : IsWordChar(text[j])
               /\ q = Len(text) \/ ~IsWordChar(text[q + 1]))

\* The kinds whose configured hashtag equals the hashtag, letter case aside.
KindsOfHashtag(entity_settings, hashtag) ==
    {kind \in Kinds :
        lower(SettingValue(entity_settings, kind \o "Hashtag")) = lower(hashtag)}

\* The positions at which a hashtag equal to a configured one starts.
ConfiguredStarts(text, entity_settings) ==
    {p \in 1..Len(text) :
        /\ HashtagStartsAt(text, p)
        /\ KindsOfHashtag(entity_settings, HashtagAt(text, p)) # {}}

\* C23: the router returns a kind whose configured hashtag equals, letter case
\* aside, the leftmost hashtag of the text that equals a configured one, with
\* that hashtag; it returns nothing when no hashtag of the text equals a
\* configured one.
C23_FirstConfiguredHashtag ==
    event.type = "extract_entity_type" =>
        LET starts == ConfiguredStarts(event.text, event.entity_settings)
            first == CHOOSE p \in starts : \A q \in starts : p <= q
        IN  IF starts = {} THEN result.match = NoMatch
            ELSE /\ result.match.hashtag = lower(HashtagAt(event.text, first))
                 /\ result.match.entity_type \in
                        KindsOfHashtag(event.entity_settings, HashtagAt(event.text, first))

\* A hashtag no kind is configured with came first and was skipped; the second
\* one, in capitals, gave the kind.
C23_Witness ==
    /\ event.type = "extract_entity_type"
    /\ event.text = <<"#", "i", "i", "#", "I">>
    /\ event.entity_settings = SettingsWith("item", <<"#", "i">>)
    /\ result.match = [entity_type |-> "item", hashtag |-> <<"#", "i">>]

\* C25: every entity an event writes carries the id of the community bound to
\* the chat of the message as communityId and the id of the message's sender
\* as userId, whatever the extraction service returned.
C25_ProvenancePinned ==
    [][ \A e \in entities' \ entities :
           /\ event'.type \in {"webhook", "entity_creation"}
           /\ e.doc.userId = IntV(event'.message.from.id)
           /\ \E c \in communities :
                 /\ c.chatId = event'.message.chat.id
                 /\ e.doc.communityId = c.id ]_vars

\* ------------------------------------------------------ updating an entity

\* The keys an update route reads from the request's JSON body.
UpdateKeys(kind) ==
    CASE kind \in {"item", "service"} -> {"title", "description", "price", "currency", "category"}
      [] kind = "event" -> {"title", "description", "date", "category"}
      [] OTHER -> {"title", "description", "category"}

\* The JSON bodies of the update requests: without a key, with a null, with a
\* new title, with a new title and a price.
UpdateBodies ==
    { <<>>, ("title" :> None), ("title" :> Str("New")),
      ("title" :> Str("New")) @@ ("price" :> IntV(150)) }

\* An update that does not filter by the requesting user.
update_entity_any_user(ents, kind, id, communityId, userId, kwargs) ==
    LET update_fields == [k \in {k \in DOMAIN kwargs : kwargs[k] # None} |-> kwargs[k]]
        found == {e \in ents : /\ e.kind = kind
                                /\ e.doc.id = id
                                /\ e.doc.communityId = communityId}
    IN IF found = {} THEN [raised |-> "TypeError", entities |-> ents]
       ELSE LET e == CHOOSE e \in found : TRUE
            IN [raised |-> "",
                entities |-> (ents \ {e})
                             \cup {[kind |-> kind, doc |-> update_fields @@ e.doc]}]

\* BaseEntity.update behind ServiceManager.update_<kind>: the keyword arguments
\* that are None are left out; with none left the document is looked up by
\* _id, communityId and userId, otherwise it is found by them and the fields
\* are set; format_entity raises TypeError on the None of a document not found.
update_entity(ents, kind, id, communityId, userId, kwargs) ==
    LET update_fields == [k \in {k \in DOMAIN kwargs : kwargs[k] # None} |-> kwargs[k]]
        found == {e \in ents : /\ e.kind = kind
                                /\ e.doc.id = id
                                /\ e.doc.communityId = communityId
                                /\ e.doc.userId = IntV(userId)}
    IN IF found = {} THEN [raised |-> "TypeError", entities |-> ents]
       ELSE LET e == CHOOSE e \in found : TRUE
            IN [raised |-> "",
                entities |-> (ents \ {e})
                             \cup {[kind |-> kind, doc |-> update_fields @@ e.doc]}]

\* PUT /api/items/<id>, /api/services/<id>, /api/events/<id> and
\* /api/news/<id> behind token_required: the status code and the entities
\* afterwards. json.get gives None for a key the body does not hold.
update_item(ents, kind, id, community, user_id, is_admin, json) ==
    IF community.status # "READY" THEN [code |-> 403, entities |-> ents]
    ELSE LET kwargs == [k \in UpdateKeys(kind) |->
                            IF k \in DOMAIN json THEN json[k] ELSE None]
             updated == update_entity(ents, kind, id, community.id, user_id, kwargs)
         IN IF updated.raised # "" THEN [code |-> 500, entities |-> ents]
            ELSE [code |-> 200, entities |-> updated.entities]

\* A request to update an entity of the store through the route of its kind or
\* of another kind, by its owner or by someone else.
UpdateEntity ==
    /\ event = NoEvent
    /\ \E e \in entities, community \in communities,
          user_id \in {Alice.id, Bob.id}, is_admin \in BOOLEAN, json \in UpdateBodies :
       \E kind \in {e.kind, OtherKind(e.kind)} :
          LET done == update_item(entities, kind, e.doc.id, community, user_id,
                                  is_admin, json)
          IN /\ entities' = done.entities
             /\ event' = [type |-> "update", kind |-> kind, entity |-> e,
                          community |-> community, user_id |-> user_id,
                          is_admin |-> is_admin, json |-> json]
             /\ result' = [status |-> done.code]
             /\ UNCHANGED <<communities, users, mediaGroups, uuid, ai, handlers>>

\* The entities of a community that is set up, written by the webhook's
\* orchestrator with the adapter entered where the service is called, and the
\* requests to update and to delete them.
NextEdit ==
    \/ TelegramEvent(MediaMessages, {"none"}, "process_response")
    \/ UpdateEntity
    \/ DeleteEntity
    \/ Finish

SpecEdit == InitOrchestrator /\ [][NextEdit]_vars

\* C29: a request to update or delete an entity made by a user who is not its
\* owner and not an administrator, or made for a community other than the
\* entity's, leaves the entities and the media groups as they were; an update
\* request whose fields are all absent or null leaves the entities as they
\* were.
C29_ForeignRequestChangesNothing ==
    [][ /\ ( /\ event = NoEvent
             /\ event'.type \in {"update", "delete"}
             /\ \/ (IntV(event'.user_id) # event'.entity.doc.userId /\ ~event'.is_admin)
                \/ event'.community.id # event'.entity.doc.communityId )
           => (entities' = entities /\ mediaGroups' = mediaGroups)
        /\ ( /\ event = NoEvent
             /\ event'.type = "update"
             /\ \A k \in DOMAIN event'.json : event'.json[k] = None )
           => entities' = entities ]_vars

\* A user who is neither the owner nor an administrator asked for a new title
\* for an entity of the community; the request failed and the entity is as it
\* was.
C29_Witness ==
    /\ event.type = "update"
    /\ event.kind = event.entity.kind
    /\ event.community.id = event.entity.doc.communityId
    /\ IntV(event.user_id) # event.entity.doc.userId
    /\ ~event.is_admin
    /\ event.json = ("title" :> Str("New"))
    /\ result.status = 500
    /\ event.entity \in entities

\* C30: a hashtag message of a group chat whose community is READY (a text, or
\* the caption of a photo or of an image document), sent by a sender that is
\* no bot, goes on to the hashtag match whether or not the sender has a
\* username: when it holds a configured hashtag the extraction adapter is
\* called for it.
C30_SenderWithoutUsernameProceeds ==
    [][ ( /\ event = NoEvent
          /\ event'.type = "webhook"
          /\ event'.fault = "none"
          /\ event'.message.chat.type \in {"group", "supergroup"}
          /\ IsHashtagMessage(event'.message)
          /\ event'.message.media # "other_document"
          /\ ~event'.message.from.is_bot
          /\ \E c \in communities :
                /\ c.chatId = event'.message.chat.id
                /\ c.status = "READY"
                /\ ConfiguredStarts(ScannedText(event'.message), c.entitySettings) # {} )
        => (ai'.called /\ result'.raised # "KeyError") ]_vars

\* ------------------------------------------- requests handled concurrently

\* A request in flight: the handler it runs, the step it is at, the sender,
\* the body of a setup request, what it has read (the community, and the user
\* document in a set that is empty when there is none), the exception that
\* left it and the status code it answered.
Handler(op, user_id, setup_data) ==
    [op |-> op, pc |-> "start", user_id |-> user_id, setup_data |-> setup_data,
     community |-> NoCommunity, user |-> {}, raised |-> "", code |-> 0]

\* The setup requests of two administrators.
ConcurrentSetups ==
    {[language |-> language, location |-> "here",
      entitySettings |-> SettingsWith("item", <<"#", "i">>)] : language \in {"en", "ru"}}

\* A command of a member in the group chat, a chat the member shares to
\* create its community, or a setup request arrives while others are being
\* handled.
Arrive ==
    /\ Len(handlers) < MaxHandlers
    /\ \E sender \in {Alice} :
          \/ \E op \in {"handle_command", "handle_chat_shared"} :
                handlers' = Append(handlers, Handler(op, sender.id, <<>>))
          \/ \E setup_data \in ConcurrentSetups :
                handlers' = Append(handlers, Handler("setup_community", sender.id, setup_data))
    /\ UNCHANGED <<store, event, ai, result>>

\* The handler reads the community: by the chat's id in handle_command and
\* handle_chat_shared, by the id the request names in token_required.
GetCommunity(h) ==
    /\ handlers[h].pc = "start"
    /\ \E community \in get_community_by_chat_id(communities, 100) :
          handlers' = [handlers EXCEPT
              ![h].community = community,
              ![h].code = IF handlers[h].op = "setup_community" /\ community = NoCommunity
                          THEN 404 ELSE 0,
              ![h].pc = CASE handlers[h].op = "setup_community" ->
                                IF community = NoCommunity THEN "done" ELSE "setup_community"
                          [] community = NoCommunity -> "create_community"
                          [] handlers[h].op = "handle_command" -> "get_user"
                          [] OTHER -> "done"]
    /\ UNCHANGED <<store, event, ai, result>>

\* create_community for the chat the handler found no community for.
CreateCommunity(h) ==
    /\ handlers[h].pc = "create_community"
    /\ uuid < MaxUuid
    /\ LET community == create_community(Uuid(uuid), 100, "Locals", "en")
       IN /\ communities' = communities \cup {community}
          /\ handlers' = [handlers EXCEPT
                 ![h].community = community,
                 ![h].pc = IF handlers[h].op = "handle_command" THEN "get_user"
                           ELSE "add_user_to_community"]
    /\ uuid' = uuid + 1
    /\ UNCHANGED <<users, entities, mediaGroups, event, ai, result>>

\* add_user_to_community_if_not_exists, its read: get_user.
GetUser(h) ==
    /\ handlers[h].pc = "get_user"
    /\ LET user == IF handlers[h].user_id \in DOMAIN users
                   THEN {users[handlers[h].user_id]} ELSE {}
       IN handlers' = [handlers EXCEPT
              ![h].user = user,
              ![h].pc = IF user = {} THEN "create_user"
                        ELSE IF \A u \in user :
                                   handlers[h].community.id \notin Range(u.communities)
                        THEN "add_user_to_community"
                        ELSE "done"]
    /\ UNCHANGED <<store, event, ai, result>>

\* add_user_to_community_if_not_exists for a user it did not find:
\* create_user, whose insert_one raises DuplicateKeyError when the collection
\* holds a document of the user's id by now.
CreateUser(h) ==
    /\ handlers[h].pc = "create_user"
    /\ IF handlers[h].user_id \in DOMAIN users
       THEN /\ handlers' = [handlers EXCEPT ![h].raised = "DuplicateKeyError",
                                            ![h].pc = "done"]
            /\ users' = users
       ELSE /\ handlers' = [handlers EXCEPT ![h].pc = "done"]
            /\ users' = users @@ (handlers[h].user_id :>
                            create_user(handlers[h].user_id, <<handlers[h].community.id>>))
    /\ UNCHANGED <<communities, entities, mediaGroups, uuid, event, ai, result>>

\* add_user_to_community: the $addToSet with upsert.
AddUserToCommunity(h) ==
    /\ handlers[h].pc = "add_user_to_community"
    /\ users' = add_community(users, handlers[h].user_id, handlers[h].community.id)
    /\ handlers' = [handlers EXCEPT ![h].pc = "done"]
    /\ UNCHANGED <<communities, entities, mediaGroups, uuid, event, ai, result>>

\* The body of setup_community, run by an administrator with the community
\* token_required read.
SetupRead(h) ==
    /\ handlers[h].pc = "setup_community"
    /\ LET done == setup_community(communities, handlers[h].community, TRUE,
                                   handlers[h].setup_data, "none")
       IN /\ communities' = done.communities
          /\ handlers' = [handlers EXCEPT ![h].code = done.code, ![h].pc = "done"]
    /\ UNCHANGED <<users, entities, mediaGroups, uuid, event, ai, result>>

\* Requests arrive and the handlers take their steps in any order.
NextConcurrent ==
    \/ Arrive
    \/ \E h \in DOMAIN handlers : GetCommunity(h)
    \/ \E h \in DOMAIN handlers : CreateCommunity(h)
    \/ \E h \in DOMAIN handlers : GetUser(h)
    \/ \E h \in DOMAIN handlers : CreateUser(h)
    \/ \E h \in DOMAIN handlers : AddUserToCommunity(h)
    \/ \E h \in DOMAIN handlers : SetupRead(h)

SpecConcurrent == Init /\ [][NextConcurrent]_vars

\* C26: no call of add_user_to_community_if_not_exists ends with an exception,
\* and when every handler is done each user a command came from has one
\* record, which holds the community of every command that user sent.
C26_ConcurrentMembership ==
    /\ \A h \in DOMAIN handlers : handlers[h].raised = ""
    /\ (\A h \in DOMAIN handlers : handlers[h].pc = "done") =>
          \A h \in DOMAIN handlers :
             handlers[h].op = "handle_command" =>
                /\ handlers[h].user_id \in DOMAIN users
                /\ handlers[h].community.id \in Range(users[handlers[h].user_id].communities)

\* C27: in every state the communities collection holds at most one document
\* for a chat id.
C27_OneCommunityPerChat ==
    \A c, d \in communities : c.chatId = d.chatId => c = d

\* C28: at most one setup request for a community is answered 200, and a
\* community that is READY keeps its language, location and entitySettings.
C28_SetupOnce ==
    /\ \A g, h \in DOMAIN handlers :
          ( /\ handlers[g].op = "setup_community" /\ handlers[g].code = 200
            /\ handlers[h].op = "setup_community" /\ handlers[h].code = 200
            /\ handlers[g].community.id = handlers[h].community.id ) => g = h
    /\ [][ \A c \in communities, d \in communities' :
              (c.id = d.id /\ c.status = "READY") => d = c ]_vars

\* ------------------------------- follow-up images handled concurrently

\* The media groups the store holds at first, each with the image it was
\* created with: the group of an album and one created for an upload.
SeedGroups ==
    (Str("album") :> <<V("str", "image", 7)>>) @@ (Str("upload") :> <<V("str", "image", 6)>>)

InitAlbum ==
    /\ communities = {}
    /\ users = <<>>
    /\ entities = {}
    /\ mediaGroups = SeedGroups
    /\ uuid = 0
    /\ event = NoEvent
    /\ ai = NoCall
    /\ result = NoResult
    /\ handlers = <<>>

\* A follow-up image arrives, for a group of the store or for an album the
\* store holds no group of, while others are being handled; each message has
\* its own image.
ImageArrives ==
    /\ Len(handlers) < MaxHandlers
    /\ \E id \in DOMAIN SeedGroups \cup {Str("other")} :
          handlers' = Append(handlers,
                             [op |-> "add_image_to_media_group", pc |-> "start", id |-> id,
                              image |-> V("str", "image", 8 + Len(handlers))])
    /\ UNCHANGED <<store, event, ai, result>>

\* add_image_to_media_group: the update_one with $push, one operation of the
\* store.
AddImage(h) ==
    /\ handlers[h].pc = "start"
    /\ mediaGroups' = add_image_to_media_group(mediaGroups, handlers[h].id, handlers[h].image)
    /\ handlers' = [handlers EXCEPT ![h].pc = "done"]
    /\ UNCHANGED <<communities, users, entities, uuid, event, ai, result>>

NextAlbum ==
    \/ ImageArrives
    \/ \E h \in DOMAIN handlers : AddImage(h)

SpecAlbum == InitAlbum /\ [][NextAlbum]_vars

\* C24: whatever the order in which the handlers of follow-up images of a
\* media group append, the group's list is the image it was created with
\* followed by the image of every handler that has appended, each once; no
\* group is created for an id that had none.
C24_NoAppendLost ==
    /\ DOMAIN mediaGroups = DOMAIN SeedGroups
    /\ \A id \in DOMAIN mediaGroups :
          LET images == mediaGroups[id]
              done == {h \in DOMAIN handlers :
                          handlers[h].id = id /\ handlers[h].pc = "done"}
          IN /\ Head(images) = Head(SeedGroups[id])
             /\ Len(images) = 1 + Cardinality(done)
             /\ \A h \in done :
                   Cardinality({k \in DOMAIN images : images[k] = handlers[h].image}) = 1

\* Two handlers appended to the album in the order opposite to that of their
\* arrival, and both images are in the list.
C24_Witness ==
    /\ Len(handlers) >= 2
    /\ handlers[1].id = Str("album")
    /\ handlers[2].id = Str("album")
    /\ mediaGroups[Str("album")] = <<V("str", "image", 7), handlers[2].image, handlers[1].image>>

\* -------------------------------------------------- notification fan-out

\* The recipients of one batch.
BatchSize == 30

\* A pause after every batch, the last one too.
pause_after_every_batch(recipients, sent) ==
    /\ sent > 0
    /\ sent % BatchSize = 0

\* Whether the task pauses before it goes on: a batch is complete and
\* recipients are left for a next one.
pause_due(recipients, sent) ==
    /\ sent > 0
    /\ sent % BatchSize = 0
    /\ sent < recipients

\* An entity has been persisted and the fan-out task is started with the
\* eligible members of its community, numbered 1 to recipients: the members
\* with notifications enabled and a chat to notify.  The log holds what the
\* task has done, a recipient's number for a message sent to it and 0 for a
\* pause.
FanOutStart ==
    /\ handlers = <<>>
    /\ \E recipients \in 0..MaxRecipients :
          handlers' = <<[op |-> "fan_out", pc |-> "batch", recipients |-> recipients,
                         sent |-> 0, paused |-> FALSE, log |-> <<>>]>>
    /\ UNCHANGED <<store, event, ai, result>>

\* send_entity_link to the next recipient of the batch.
SendEntityLink(h) ==
    /\ handlers[h].pc = "batch"
    /\ handlers[h].sent < handlers[h].recipients
    /\ pause_due(handlers[h].recipients, handlers[h].sent) => handlers[h].paused
    /\ handlers' = [handlers EXCEPT ![h].sent = @ + 1,
                                    ![h].paused = FALSE,
                                    ![h].log = Append(@, handlers[h].sent + 1)]
    /\ UNCHANGED <<store, event, ai, result>>

\* The pause between two batches.
Pause(h) ==
    /\ handlers[h].pc = "batch"
    /\ pause_due(handlers[h].recipients, handlers[h].sent)
    /\ ~handlers[h].paused
    /\ handlers' = [handlers EXCEPT ![h].paused = TRUE, ![h].log = Append(@, 0)]
    /\ UNCHANGED <<store, event, ai, result>>

\* The task ends after the last batch.
FanOutEnd(h) ==
    /\ handlers[h].pc = "batch"
    /\ handlers[h].sent = handlers[h].recipients
    /\ pause_due(handlers[h].recipients, handlers[h].sent) => handlers[h].paused
    /\ handlers' = [handlers EXCEPT ![h].pc = "done"]
    /\ UNCHANGED <<store, event, ai, result>>

NextFanOut ==
    \/ FanOutStart
    \/ \E h \in DOMAIN handlers : SendEntityLink(h)
    \/ \E h \in DOMAIN handlers : Pause(h)
    \/ \E h \in DOMAIN handlers : FanOutEnd(h)

SpecFanOut == Init /\ [][NextFanOut]_vars

\* C21: a fan-out to N eligible recipients that has ended has sent one message
\* to each recipient and has paused only between two batches: a pause follows
\* every 30th message that is not the last, and nothing else, so that the
\* batches hold 30 messages each but for the last, which holds the rest, and
\* the pauses are ceil(N/30) - 1 (none when N is at most 30).
C21_FanOutBatches ==
    \A h \in DOMAIN handlers :
       handlers[h].pc = "done" =>
          LET log == handlers[h].log
              N == handlers[h].recipients
              pauses == {k \in DOMAIN log : log[k] = 0}
          IN /\ \A r \in 1..N : Cardinality({k \in DOMAIN log : log[k] = r}) = 1
             /\ Len(log) = N + Cardinality(pauses)
             /\ \A k \in pauses : k % 31 = 0 /\ k < Len(log)
             /\ \A k \in DOMAIN log : (k % 31 = 0 /\ k < Len(log)) => k \in pauses
             /\ N >= 1 => Cardinality(pauses) = ((N + 29) \div 30) - 1
             /\ N <= 30 => pauses = {}

\* A fan-out to 65 recipients has ended: batches of 30, 30 and 5 with a pause
\* after the first and after the second.
C21_Witness ==
    \E h \in DOMAIN handlers :
       /\ handlers[h].pc = "done"
       /\ handlers[h].recipients = 65
       /\ Len(handlers[h].log) = 67
       /\ {k \in DOMAIN handlers[h].log : handlers[h].log[k] = 0} = {31, 62}

====
